---- MODULE Spec2Model ----
(***************************************************************************)
(* BoundedBlockingQueue (src/mq.py) with its Producer and Consumer         *)
(* threads, and the callers of src/testmq.py and src/demo-mq.py.           *)
(*                                                                         *)
(* A thread is a pair <<kind, n>>.  Every thread has a position pc[t]; the *)
(* positions inside put, get and qsize are the lines of src/mq.py:         *)
(*   put_enter   47  with self._not_full:       (lock.acquire)             *)
(*   put_while   49  while len(queue) >= maxsize                           *)
(*   put_wait    50  not_full.wait(): in the wait set, lock released       *)
(*   put_woken   50  notified, re-acquiring the lock to leave wait()       *)
(*   put_append  52  queue.append(item)                                    *)
(*   put_notify  54  not_empty.notify()                                    *)
(*   put_exit    54  end of the with block     (lock.release)              *)
(* and likewise get_enter 58, get_while 60, get_wait/get_woken 61,         *)
(* get_pop 63, get_notify 66, get_exit 68, qsize_enter 72, qsize_read 73,  *)
(* qsize_exit 73.  ret[t] is the position the call returns to.             *)
(***************************************************************************)
EXTENDS Integers, Sequences, FiniteSets, TLC

VARIABLES
    maxsize,    \* self._maxsize; Unbound while no queue has been constructed
    arg,        \* the maxsize argument of BoundedBlockingQueue(maxsize)
    queue,      \* self._queue: the deque, head first
    lock,       \* self._lock: the thread that holds it, or NoThread
    not_empty,  \* self._not_empty: its waiters, in wait() order
    not_full,   \* self._not_full: its waiters, in wait() order
    pc,         \* position of every thread
    ret,        \* position a thread's current call returns to
    item,       \* per thread: the argument of its running put / the value its
                \* last get returned
    source,     \* Producer._source
    idx,        \* per thread: how many items of its source a producer has taken
    dest,       \* Consumer._dest (testmq.py: the consumed list)
    ncalls,     \* per Producer, Consumer, producer_fn, consumer_fn and main
                \* thread: the calls of put or get it has started
    size,       \* per thread: the value its last qsize returned
    budget,     \* the calls the threads that call the queue directly may
                \* still start (what keeps the model finite)
    putLog,     \* history: the items appended, in the order of the appends
    getLog,     \* history: the items removed, in the order of the removals
    mark        \* history: per thread, the number of complementary operations
                \* completed when its current call last found the queue
                \* empty (get) or full (put); -1 when it has not

vars == <<maxsize, arg, queue, lock, not_empty, not_full, pc, ret, item, source,
          idx, dest, ncalls, size, budget, putLog, getLog, mark>>

----------------------------------------------------------------------------
(* Bounds of the model *)

MaxCap == 2      \* capacities 1..MaxCap
MaxSrc == 3      \* sources of length 0..MaxSrc
MaxItem == 2     \* payload values 1..MaxItem
NumCallers == 3  \* threads that call put, get and qsize directly
MaxCalls == 4    \* calls those threads make at most, all together
BURST == 1           \* items each producer_fn puts (the test: 50)
NUM_PRODUCERS == 2   \* producer_fn threads (the test: 4)
NUM_CONSUMERS == 2   \* consumer_fn threads (the test: 4)

(* The session of src/demo-mq.py *)
DemoMaxsize == 10
DemoLast == 20

NoThread == <<"none", 0>>
\* SENTINEL = object(): a value that is no payload item
SENTINEL == 0
\* a local variable `item` that has not been assigned yet
Unbound == -1

Threads == DOMAIN pc

Range(s) == {s[i] : i \in 1..Len(s)}

RECURSIVE SeqsUpTo(_, _)
SeqsUpTo(S, n) ==
    IF n = 0 THEN {<<>>}
    ELSE LET shorter == SeqsUpTo(S, n - 1)
         IN  shorter \cup {Append(s, x) : s \in {q \in shorter : Len(q) = n - 1}, x \in S}

Payload == 1..MaxItem

----------------------------------------------------------------------------
(* threading.Lock and threading.Condition, as BoundedBlockingQueue uses them *)

\* mutant: the lock is taken without waiting for its holder to release it
AcquireUnguarded(t) == lock' = t

\* Lock.acquire(): possible only while nobody holds the lock
Acquire(t) ==
    /\ lock = NoThread
    /\ lock' = t

\* Lock.release()
Release(t) == lock' = NoThread

\* mutant: the notify is forgotten (the waiter stays suspended)
NotifyNobody(t, waiters, woken, next) == pc' = [pc EXCEPT ![t] = next]

\* Condition.notify(): the longest waiter, if any, leaves the wait set and
\* goes on to re-acquire the lock; `woken` is its new position
Notify(t, waiters, woken, next) ==
    IF waiters = <<>>
    THEN pc' = [pc EXCEPT ![t] = next]
    ELSE pc' = [pc EXCEPT ![t] = next, ![Head(waiters)] = woken]

AfterNotify(waiters) == IF waiters = <<>> THEN waiters ELSE Tail(waiters)

----------------------------------------------------------------------------
(* BoundedBlockingQueue.put *)

PutEnter(t) ==
    /\ pc[t] = "put_enter"
    /\ Acquire(t)
    /\ pc' = [pc EXCEPT ![t] = "put_while"]
    /\ UNCHANGED <<maxsize, arg, budget, queue, not_empty, not_full, ret, item, source, idx,
                   dest, ncalls, size, putLog, getLog, mark>>

\* mutant: `>` in place of `>=` lets one item too many in
IsFullOffByOne == Len(queue) > maxsize

IsFull == Len(queue) >= maxsize

\* mutant: a full queue makes put give up and return, the item dropped
PutDropWhenFull(t) ==
    /\ pc[t] = "put_while"
    /\ Len(queue) >= maxsize
    /\ Release(t)
    /\ pc' = [pc EXCEPT ![t] = ret[t]]
    /\ UNCHANGED <<maxsize, arg, budget, queue, not_empty, not_full, ret, item, source, idx,
                   dest, ncalls, size, putLog, getLog, mark>>

\* while len(queue) >= maxsize: not_full.wait()
PutWait(t) ==
    /\ pc[t] = "put_while"
    /\ IsFull
    /\ not_full' = Append(not_full, t)
    /\ Release(t)
    /\ pc' = [pc EXCEPT ![t] = "put_wait"]
    /\ mark' = [mark EXCEPT ![t] = Len(getLog)]
    /\ UNCHANGED <<maxsize, arg, budget, queue, not_empty, ret, item, source, idx, dest,
                   ncalls, size, putLog, getLog>>

PutProceed(t) ==
    /\ pc[t] = "put_while"
    /\ ~IsFull
    /\ pc' = [pc EXCEPT ![t] = "put_append"]
    /\ UNCHANGED <<maxsize, arg, budget, queue, lock, not_empty, not_full, ret, item, source,
                   idx, dest, ncalls, size, putLog, getLog, mark>>

\* mutant: `if` for `while`: a woken put appends without re-checking
PutReacquireNoRecheck(t) ==
    /\ pc[t] = "put_woken"
    /\ Acquire(t)
    /\ pc' = [pc EXCEPT ![t] = "put_append"]
    /\ UNCHANGED <<maxsize, arg, budget, queue, not_empty, not_full, ret, item,
                   source, idx, dest, ncalls, size, putLog, getLog, mark>>

\* the end of not_full.wait(): the notified thread takes the lock again
PutReacquire(t) ==
    /\ pc[t] = "put_woken"
    /\ Acquire(t)
    /\ pc' = [pc EXCEPT ![t] = "put_while"]
    /\ UNCHANGED <<maxsize, arg, budget, queue, not_empty, not_full, ret, item, source, idx,
                   dest, ncalls, size, putLog, getLog, mark>>

\* mutant: appendleft() in place of append() puts the item at the head
PutAppendLeft(t) ==
    /\ pc[t] = "put_append"
    /\ queue' = <<item[t]>> \o queue
    /\ putLog' = Append(putLog, item[t])
    /\ pc' = [pc EXCEPT ![t] = "put_notify"]
    /\ UNCHANGED <<maxsize, arg, budget, lock, not_empty, not_full, ret, item, source, idx,
                   dest, ncalls, size, getLog, mark>>

PutAppend(t) ==
    /\ pc[t] = "put_append"
    /\ queue' = Append(queue, item[t])
    /\ putLog' = Append(putLog, item[t])
    /\ pc' = [pc EXCEPT ![t] = "put_notify"]
    /\ UNCHANGED <<maxsize, arg, budget, lock, not_empty, not_full, ret, item, source, idx,
                   dest, ncalls, size, getLog, mark>>

\* mutant: the put signals not_full, the condition producers wait on
PutNotifyWrongCondition(t) ==
    /\ pc[t] = "put_notify"
    /\ Notify(t, not_full, "put_woken", "put_exit")
    /\ not_full' = AfterNotify(not_full)
    /\ UNCHANGED <<maxsize, arg, budget, queue, lock, not_empty, ret, item, source, idx, dest,
                   ncalls, size, putLog, getLog, mark>>

PutNotify(t) ==
    /\ pc[t] = "put_notify"
    /\ Notify(t, not_empty, "get_woken", "put_exit")
    /\ not_empty' = AfterNotify(not_empty)
    /\ UNCHANGED <<maxsize, arg, budget, queue, lock, not_full, ret, item, source, idx, dest,
                   ncalls, size, putLog, getLog, mark>>

\* the with block ends and put returns: its parameter `item` is gone
PutExit(t) ==
    /\ pc[t] = "put_exit"
    /\ Release(t)
    /\ pc' = [pc EXCEPT ![t] = ret[t]]
    /\ mark' = [mark EXCEPT ![t] = -1]
    /\ item' = [item EXCEPT ![t] = Unbound]
    /\ UNCHANGED <<maxsize, arg, budget, queue, not_empty, not_full, ret, source, idx,
                   dest, ncalls, size, putLog, getLog>>

Put(t) ==
    \/ PutEnter(t)
    \/ PutWait(t)
    \/ PutProceed(t)
    \/ PutReacquire(t)
    \/ PutAppend(t)
    \/ PutNotify(t)
    \/ PutExit(t)

----------------------------------------------------------------------------
(* BoundedBlockingQueue.get *)

GetEnter(t) ==
    /\ pc[t] = "get_enter"
    /\ Acquire(t)
    /\ pc' = [pc EXCEPT ![t] = "get_while"]
    /\ UNCHANGED <<maxsize, arg, budget, queue, not_empty, not_full, ret, item, source, idx,
                   dest, ncalls, size, putLog, getLog, mark>>

IsEmpty == Len(queue) = 0

\* mutant: an empty queue makes get fail at once instead of waiting
GetRaiseWhenEmpty(t) ==
    /\ pc[t] = "get_while"
    /\ Len(queue) = 0
    /\ Release(t)
    /\ pc' = [pc EXCEPT ![t] = "raised"]
    /\ UNCHANGED <<maxsize, arg, budget, queue, not_empty, not_full, ret, item, source, idx,
                   dest, ncalls, size, putLog, getLog, mark>>

\* while not queue: not_empty.wait()
GetWait(t) ==
    /\ pc[t] = "get_while"
    /\ IsEmpty
    /\ not_empty' = Append(not_empty, t)
    /\ Release(t)
    /\ pc' = [pc EXCEPT ![t] = "get_wait"]
    /\ mark' = [mark EXCEPT ![t] = Len(putLog)]
    /\ UNCHANGED <<maxsize, arg, budget, queue, not_full, ret, item, source, idx, dest,
                   ncalls, size, putLog, getLog>>

GetProceed(t) ==
    /\ pc[t] = "get_while"
    /\ ~IsEmpty
    /\ pc' = [pc EXCEPT ![t] = "get_pop"]
    /\ UNCHANGED <<maxsize, arg, budget, queue, lock, not_empty, not_full, ret, item, source,
                   idx, dest, ncalls, size, putLog, getLog, mark>>

GetReacquire(t) ==
    /\ pc[t] = "get_woken"
    /\ Acquire(t)
    /\ pc' = [pc EXCEPT ![t] = "get_while"]
    /\ UNCHANGED <<maxsize, arg, budget, queue, not_empty, not_full, ret, item, source, idx,
                   dest, ncalls, size, putLog, getLog, mark>>

\* mutant: pop() in place of popleft() takes the newest item
GetPopRight(t) ==
    /\ pc[t] = "get_pop"
    /\ IF queue = <<>>
       THEN /\ Release(t)
            /\ pc' = [pc EXCEPT ![t] = "raised"]
            /\ UNCHANGED <<queue, item, getLog>>
       ELSE /\ item' = [item EXCEPT ![t] = queue[Len(queue)]]
            /\ queue' = SubSeq(queue, 1, Len(queue) - 1)
            /\ getLog' = Append(getLog, queue[Len(queue)])
            /\ pc' = [pc EXCEPT ![t] = "get_notify"]
            /\ UNCHANGED lock
    /\ UNCHANGED <<maxsize, arg, budget, not_empty, not_full, ret, source, idx, dest, ncalls,
                   size, putLog, mark>>

\* mutant: queue[0] for queue.popleft(): the item is returned and stays
GetPopPeek(t) ==
    /\ pc[t] = "get_pop"
    /\ IF queue = <<>>
       THEN /\ Release(t)
            /\ pc' = [pc EXCEPT ![t] = "raised"]
            /\ UNCHANGED <<item, getLog>>
       ELSE /\ item' = [item EXCEPT ![t] = Head(queue)]
            /\ getLog' = Append(getLog, Head(queue))
            /\ pc' = [pc EXCEPT ![t] = "get_notify"]
            /\ UNCHANGED lock
    /\ UNCHANGED <<maxsize, arg, budget, queue, not_empty, not_full, ret, source,
                   idx, dest, ncalls, size, putLog, mark>>

\* item = queue.popleft(); popleft on an empty deque raises IndexError, which
\* leaves the with block (releasing the lock) and ends the thread
GetPop(t) ==
    /\ pc[t] = "get_pop"
    /\ IF queue = <<>>
       THEN /\ Release(t)
            /\ pc' = [pc EXCEPT ![t] = "raised"]
            /\ UNCHANGED <<queue, item, getLog>>
       ELSE /\ item' = [item EXCEPT ![t] = Head(queue)]
            /\ queue' = Tail(queue)
            /\ getLog' = Append(getLog, Head(queue))
            /\ pc' = [pc EXCEPT ![t] = "get_notify"]
            /\ UNCHANGED lock
    /\ UNCHANGED <<maxsize, arg, budget, not_empty, not_full, ret, source, idx, dest, ncalls,
                   size, putLog, mark>>

\* mutant: get signals the condition of the consumers
GetNotifyWrongCondition(t) ==
    /\ pc[t] = "get_notify"
    /\ Notify(t, not_empty, "get_woken", "get_exit")
    /\ not_empty' = AfterNotify(not_empty)
    /\ UNCHANGED <<maxsize, arg, budget, queue, lock, not_full, ret, item,
                   source, idx, dest, ncalls, size, putLog, getLog, mark>>

\* mutant: notify_all() for notify(): every waiting put is woken
GetNotifyAll(t) ==
    /\ pc[t] = "get_notify"
    /\ pc' = [u \in Threads |->
                IF u = t THEN "get_exit"
                ELSE IF pc[u] = "put_wait" THEN "put_woken" ELSE pc[u]]
    /\ not_full' = <<>>
    /\ UNCHANGED <<maxsize, arg, budget, queue, lock, not_empty, ret, item,
                   source, idx, dest, ncalls, size, putLog, getLog, mark>>

GetNotify(t) ==
    /\ pc[t] = "get_notify"
    /\ Notify(t, not_full, "put_woken", "get_exit")
    /\ not_full' = AfterNotify(not_full)
    /\ UNCHANGED <<maxsize, arg, budget, queue, lock, not_empty, ret, item, source, idx, dest,
                   ncalls, size, putLog, getLog, mark>>

GetExit(t) ==
    /\ pc[t] = "get_exit"
    /\ Release(t)
    /\ pc' = [pc EXCEPT ![t] = ret[t]]
    /\ mark' = [mark EXCEPT ![t] = -1]
    /\ UNCHANGED <<maxsize, arg, budget, queue, not_empty, not_full, ret, item, source, idx,
                   dest, ncalls, size, putLog, getLog>>

Get(t) ==
    \/ GetEnter(t)
    \/ GetWait(t)
    \/ GetProceed(t)
    \/ GetReacquire(t)
    \/ GetPop(t)
    \/ GetNotify(t)
    \/ GetExit(t)

----------------------------------------------------------------------------
(* BoundedBlockingQueue.qsize *)

\* mutant: the length is read without taking the lock
QsizeEnterUnlocked(t) ==
    /\ pc[t] = "qsize_enter"
    /\ pc' = [pc EXCEPT ![t] = "qsize_read"]
    /\ UNCHANGED <<maxsize, arg, budget, queue, lock, not_empty, not_full, ret,
                   item, source, idx, dest, ncalls, size, putLog, getLog, mark>>

\* with self._lock:
QsizeEnter(t) ==
    /\ pc[t] = "qsize_enter"
    /\ Acquire(t)
    /\ pc' = [pc EXCEPT ![t] = "qsize_read"]
    /\ UNCHANGED <<maxsize, arg, budget, queue, not_empty, not_full, ret, item, source, idx,
                   dest, ncalls, size, putLog, getLog, mark>>

\* return len(self._queue)
QsizeRead(t) ==
    /\ pc[t] = "qsize_read"
    /\ size' = [size EXCEPT ![t] = Len(queue)]
    /\ pc' = [pc EXCEPT ![t] = "qsize_exit"]
    /\ UNCHANGED <<maxsize, arg, budget, queue, lock, not_empty, not_full, ret, item, source,
                   idx, dest, ncalls, putLog, getLog, mark>>

QsizeExit(t) ==
    /\ pc[t] = "qsize_exit"
    /\ Release(t)
    /\ pc' = [pc EXCEPT ![t] = ret[t]]
    /\ UNCHANGED <<maxsize, arg, budget, queue, not_empty, not_full, ret, item, source, idx,
                   dest, ncalls, size, putLog, getLog, mark>>

Qsize(t) ==
    \/ QsizeEnter(t)
    \/ QsizeRead(t)
    \/ QsizeExit(t)

----------------------------------------------------------------------------
(* Producer.run and Consumer.run *)

\* for item in self._source: self._queue.put(item)
ProducerLoop(t) ==
    /\ pc[t] = "producer_for"
    /\ idx[t] < Len(source)
    /\ idx' = [idx EXCEPT ![t] = idx[t] + 1]
    /\ item' = [item EXCEPT ![t] = source[idx[t] + 1]]
    /\ ncalls' = [ncalls EXCEPT ![t] = ncalls[t] + 1]
    /\ ret' = [ret EXCEPT ![t] = "producer_for"]
    /\ pc' = [pc EXCEPT ![t] = "put_enter"]
    /\ UNCHANGED <<maxsize, arg, budget, queue, lock, not_empty, not_full, source, dest,
                   size, putLog, getLog, mark>>

\* mutant: run returns without putting the sentinel
ProducerNoSentinel(t) ==
    /\ pc[t] = "producer_for"
    /\ idx[t] = Len(source)
    /\ pc' = [pc EXCEPT ![t] = "done"]
    /\ UNCHANGED <<maxsize, arg, budget, queue, lock, not_empty, not_full, ret,
                   item, source, idx, dest, ncalls, size, putLog, getLog, mark>>

\* self._queue.put(self._sentinel), then run returns
ProducerSentinel(t) ==
    /\ pc[t] = "producer_for"
    /\ idx[t] = Len(source)
    /\ item' = [item EXCEPT ![t] = SENTINEL]
    /\ ncalls' = [ncalls EXCEPT ![t] = ncalls[t] + 1]
    /\ ret' = [ret EXCEPT ![t] = "done"]
    /\ pc' = [pc EXCEPT ![t] = "put_enter"]
    /\ UNCHANGED <<maxsize, arg, budget, queue, lock, not_empty, not_full, source, idx, dest,
                   size, putLog, getLog, mark>>

\* while True: item = self._queue.get()
ConsumerLoop(t) ==
    /\ pc[t] = "consumer_while"
    /\ ncalls' = [ncalls EXCEPT ![t] = ncalls[t] + 1]
    /\ ret' = [ret EXCEPT ![t] = "consumer_if"]
    /\ pc' = [pc EXCEPT ![t] = "get_enter"]
    /\ UNCHANGED <<maxsize, arg, budget, queue, lock, not_empty, not_full, item, source, idx,
                   dest, size, putLog, getLog, mark>>

\* mutant: `==`/truthiness in place of `is` also stops on a payload value
IsSentinelLoose(x) == x = SENTINEL \/ x = 1

IsSentinel(x) == x = SENTINEL

\* mutant: the item is stored before it is compared with the sentinel
ConsumerIfAppendFirst(t) ==
    /\ pc[t] = "consumer_if"
    /\ dest' = Append(dest, item[t])
    /\ pc' = [pc EXCEPT ![t] = IF IsSentinel(item[t]) THEN "done" ELSE "consumer_while"]
    /\ UNCHANGED <<maxsize, arg, budget, queue, lock, not_empty, not_full, ret, item, source,
                   idx, ncalls, size, putLog, getLog, mark>>

\* if item is self._sentinel: break;  self._dest.append(item)
ConsumerIf(t) ==
    /\ pc[t] = "consumer_if"
    /\ IF IsSentinel(item[t])
       THEN /\ pc' = [pc EXCEPT ![t] = "done"]
            /\ UNCHANGED dest
       ELSE /\ dest' = Append(dest, item[t])
            /\ pc' = [pc EXCEPT ![t] = "consumer_while"]
    /\ UNCHANGED <<maxsize, arg, budget, queue, lock, not_empty, not_full, ret, item, source,
                   idx, ncalls, size, putLog, getLog, mark>>

ProducerRun(t) == ProducerLoop(t) \/ ProducerSentinel(t) \/ Put(t)

ConsumerRun(t) == ConsumerLoop(t) \/ ConsumerIf(t) \/ Get(t)

----------------------------------------------------------------------------
(* One Producer and one Consumer on one queue: run_producer_consumer *)

TheProducer == <<"Producer", 1>>
TheConsumer == <<"Consumer", 1>>

Start(t) ==
    IF t[1] = "Producer" THEN "producer_for"
    ELSE IF t[1] \in {"Consumer", "consumer_fn"} THEN "consumer_while"
    ELSE IF t[1] = "producer_fn" THEN "producer_fn_for"
    ELSE IF t[1] = "main" THEN "main_join_producers"
    ELSE "idle"

InitQueue(ts) ==
    /\ arg = maxsize
    /\ queue = <<>>
    /\ lock = NoThread
    /\ not_empty = <<>>
    /\ not_full = <<>>
    /\ pc = [t \in ts |-> Start(t)]
    /\ ret = [t \in ts |-> "done"]
    /\ item = [t \in ts |-> Unbound]
    /\ idx = [t \in ts |-> 0]
    /\ ncalls = [t \in ts |-> 0]
    /\ dest = <<>>
    /\ putLog = <<>>
    /\ getLog = <<>>
    /\ size = [t \in ts |-> Unbound]
    /\ budget = MaxCalls
    /\ mark = [t \in ts |-> -1]

Sessions ==
    ((1..MaxCap) \X SeqsUpTo(Payload, MaxSrc))
        \cup {<<DemoMaxsize, [i \in 1..DemoLast |-> i]>>}

Init ==
    /\ \E s \in Sessions :
          /\ maxsize = s[1]
          /\ source = s[2]
    /\ InitQueue({TheProducer, TheConsumer})

Next ==
    \/ ProducerRun(TheProducer)
    \/ ConsumerRun(TheConsumer)

Spec == Init /\ [][Next]_vars

\* A thread that can take a step eventually takes one (each thread is an OS
\* thread of its own: Producer.start(), Consumer.start())
FairSpec ==
    /\ Spec
    /\ WF_vars(ProducerRun(TheProducer))
    /\ WF_vars(ConsumerRun(TheConsumer))

\* the same two threads on queues that are large enough for the whole source
\* and the sentinel as well as on smaller ones (test_producer_places_all_items_
\* and_sentinel_in_queue: maxsize 10 for three items; test_producer_empty_
\* source_sends_only_sentinel)
InitProducer ==
    /\ maxsize \in 1..(MaxSrc + 1)
    /\ source \in SeqsUpTo(Payload, MaxSrc)
    /\ InitQueue({TheProducer, TheConsumer})

SpecProducer == InitProducer /\ [][Next]_vars

----------------------------------------------------------------------------
(* Several Consumer threads on the queue of one Producer, which puts the    *)
(* one sentinel of Producer.run                                             *)

SharedConsumers == {<<"Consumer", i>> : i \in 1..NUM_CONSUMERS}

\* list(range(1, n + 1)), the kind of source of src/demo-mq.py
RangeSource(n) == [i \in 1..n |-> i]

InitShared ==
    /\ maxsize \in 1..MaxCap
    /\ source \in {RangeSource(n) : n \in 0..MaxSrc}
    /\ InitQueue({TheProducer} \cup SharedConsumers)

NextShared ==
    \/ ProducerRun(TheProducer)
    \/ \E c \in SharedConsumers : ConsumerRun(c)

SpecShared == InitShared /\ [][NextShared]_vars

\* every thread is an OS thread of its own
FairShared ==
    /\ SpecShared
    /\ WF_vars(ProducerRun(TheProducer))
    /\ \A c \in SharedConsumers : WF_vars(ConsumerRun(c))

----------------------------------------------------------------------------
(* Threads that call put, get and qsize directly, in any order and at any   *)
(* time, as the threads of src/testmq.py do (consumer() 68-71, producer()   *)
(* 93-95, the test's own thread 79 and 103-108, sampler() 185-188)          *)

Callers == {<<"caller", i>> : i \in 1..NumCallers}

\* the k-th item of thread t, distinct from every other item: f"P{pid}-{i}"
ItemOf(t, k) == t[2] * (BURST + 1) + k

\* the k-th item thread t puts, distinct from every other item put
\* (f"P{pid}-{i}")
CallerItem(t, k) == t[2] + NumCallers * (k - 1)

\* the thread that puts item x
PutterOf(x) == <<"caller", ((x - 1) % NumCallers) + 1>>

\* the puts of thread t that have appended their item: all the puts it has
\* made once it is back from put
PutsOf(t) == Cardinality({i \in 1..Len(putLog) : PutterOf(putLog[i]) = t})

\* q.put(x): every put has a value of its own
CallPut(t) ==
    /\ pc[t] = "idle"
    /\ budget > 0
    /\ budget' = budget - 1
    /\ item' = [item EXCEPT ![t] = CallerItem(t, PutsOf(t) + 1)]
    /\ size' = [size EXCEPT ![t] = Unbound]
    /\ ret' = [ret EXCEPT ![t] = "idle"]
    /\ pc' = [pc EXCEPT ![t] = "put_enter"]
    /\ UNCHANGED <<maxsize, arg, queue, lock, not_empty, not_full, source, idx, dest,
                   ncalls, putLog, getLog, mark>>

\* q.get()
CallGet(t) ==
    /\ pc[t] = "idle"
    /\ budget > 0
    /\ budget' = budget - 1
    /\ item' = [item EXCEPT ![t] = Unbound]
    /\ size' = [size EXCEPT ![t] = Unbound]
    /\ ret' = [ret EXCEPT ![t] = "idle"]
    /\ pc' = [pc EXCEPT ![t] = "get_enter"]
    /\ UNCHANGED <<maxsize, arg, queue, lock, not_empty, not_full, source, idx, dest,
                   ncalls, putLog, getLog, mark>>

\* q.qsize()
CallQsize(t) ==
    /\ pc[t] = "idle"
    /\ budget > 0
    /\ budget' = budget - 1
    /\ item' = [item EXCEPT ![t] = Unbound]
    /\ ret' = [ret EXCEPT ![t] = "idle"]
    /\ pc' = [pc EXCEPT ![t] = "qsize_enter"]
    /\ UNCHANGED <<maxsize, arg, queue, lock, not_empty, not_full, source, idx, dest,
                   ncalls, size, putLog, getLog, mark>>

Caller(t) ==
    \/ CallPut(t)
    \/ CallGet(t)
    \/ CallQsize(t)
    \/ Put(t)
    \/ Get(t)
    \/ Qsize(t)

InitCalls ==
    /\ maxsize \in 1..MaxCap
    /\ source = <<>>
    /\ InitQueue(Callers)

NextCalls == \E t \in Callers : Caller(t)

SpecCalls == InitCalls /\ [][NextCalls]_vars

----------------------------------------------------------------------------
(* The same threads when Condition.wait() may also return without a notify  *)
(* (a spurious wake): the waiter leaves the wait set by itself and goes on  *)
(* to re-acquire the lock, as a notified waiter does                        *)

Without(waiters, t) == SelectSeq(waiters, LAMBDA u : u # t)

SpuriousWake(t) ==
    \/ /\ pc[t] = "put_wait"
       /\ not_full' = Without(not_full, t)
       /\ pc' = [pc EXCEPT ![t] = "put_woken"]
       /\ UNCHANGED <<maxsize, arg, budget, queue, lock, not_empty, ret, item,
                      source, idx, dest, ncalls, size, putLog, getLog, mark>>
    \/ /\ pc[t] = "get_wait"
       /\ not_empty' = Without(not_empty, t)
       /\ pc' = [pc EXCEPT ![t] = "get_woken"]
       /\ UNCHANGED <<maxsize, arg, budget, queue, lock, not_full, ret, item,
                      source, idx, dest, ncalls, size, putLog, getLog, mark>>

NextSpurious ==
    \/ NextCalls
    \/ \E t \in Callers : SpuriousWake(t)

SpecSpurious == InitCalls /\ [][NextSpurious]_vars

----------------------------------------------------------------------------
(* BoundedBlockingQueue(maxsize): the first caller constructs the queue     *)
(* (q = BoundedBlockingQueue(...), the first line of every test) and the    *)
(* callers use it once it exists                                            *)

Constructor == <<"caller", 1>>

\* mutant: only a negative maxsize is rejected
InvalidMaxsizeNegativeOnly(n) == n < 0

\* if maxsize <= 0
InvalidMaxsize(n) == n <= 0

\* __init__: raise ValueError("maxsize must be > 0") and nothing is assigned,
\* or the five fields are set; the threads of the test are started on the
\* queue after that
New(t) ==
    /\ pc[t] = "new"
    /\ IF InvalidMaxsize(arg)
       THEN /\ pc' = [pc EXCEPT ![t] = "raised"]
            /\ UNCHANGED <<maxsize, queue, lock, not_empty, not_full>>
       ELSE /\ maxsize' = arg
            /\ queue' = <<>>
            /\ lock' = NoThread
            /\ not_empty' = <<>>
            /\ not_full' = <<>>
            /\ pc' = [u \in Threads |-> "idle"]
    /\ UNCHANGED <<arg, budget, ret, item, source, idx, dest, ncalls, size,
                   putLog, getLog, mark>>

\* nothing is constructed yet: the fields of the queue do not exist
\* (maxsize is Unbound, the other fields hold no thread and no item)
InitNew ==
    /\ arg \in (-MaxCap)..MaxCap
    /\ maxsize = Unbound
    /\ source = <<>>
    /\ queue = <<>>
    /\ lock = NoThread
    /\ not_empty = <<>>
    /\ not_full = <<>>
    /\ pc = [t \in Callers |-> IF t = Constructor THEN "new" ELSE "unstarted"]
    /\ ret = [t \in Callers |-> "done"]
    /\ item = [t \in Callers |-> Unbound]
    /\ idx = [t \in Callers |-> 0]
    /\ ncalls = [t \in Callers |-> 0]
    /\ dest = <<>>
    /\ putLog = <<>>
    /\ getLog = <<>>
    /\ size = [t \in Callers |-> Unbound]
    /\ budget = MaxCalls
    /\ mark = [t \in Callers |-> -1]

NextNew ==
    \/ New(Constructor)
    \/ NextCalls

SpecNew == InitNew /\ [][NextNew]_vars

----------------------------------------------------------------------------
(* test_burst_put_get_qsize_consistency: producer_fn and consumer_fn        *)
(* threads on one queue; the test's own thread puts one sentinel per        *)
(* consumer once every producer has finished                                *)

BurstProducers == {<<"producer_fn", i>> : i \in 1..NUM_PRODUCERS}
BurstConsumers == {<<"consumer_fn", i>> : i \in 1..NUM_CONSUMERS}
Main == <<"main", 0>>

\* for item in items: q.put(item)
ProducerFnLoop(t) ==
    /\ pc[t] = "producer_fn_for"
    /\ idx[t] < BURST
    /\ idx' = [idx EXCEPT ![t] = idx[t] + 1]
    /\ item' = [item EXCEPT ![t] = ItemOf(t, idx[t] + 1)]
    /\ ncalls' = [ncalls EXCEPT ![t] = ncalls[t] + 1]
    /\ ret' = [ret EXCEPT ![t] = "producer_fn_for"]
    /\ pc' = [pc EXCEPT ![t] = "put_enter"]
    /\ UNCHANGED <<maxsize, arg, budget, queue, lock, not_empty, not_full, source, dest,
                   size, putLog, getLog, mark>>

\* the loop is exhausted: producer_fn returns
ProducerFnEnd(t) ==
    /\ pc[t] = "producer_fn_for"
    /\ idx[t] = BURST
    /\ pc' = [pc EXCEPT ![t] = "done"]
    /\ UNCHANGED <<maxsize, arg, budget, queue, lock, not_empty, not_full, ret, item, source,
                   idx, dest, ncalls, size, putLog, getLog, mark>>

ProducerFn(t) == ProducerFnLoop(t) \/ ProducerFnEnd(t) \/ Put(t)

\* consumer_fn has the body of Consumer.run, with `consumed` for dest
ConsumerFn(t) == ConsumerRun(t)

\* for t in producers: t.join()
MainJoinProducers ==
    /\ pc[Main] = "main_join_producers"
    /\ \A p \in BurstProducers : pc[p] = "done"
    /\ pc' = [pc EXCEPT ![Main] = "main_for"]
    /\ UNCHANGED <<maxsize, arg, budget, queue, lock, not_empty, not_full, ret, item, source,
                   idx, dest, ncalls, size, putLog, getLog, mark>>

\* for _ in range(NUM_CONSUMERS): q.put(SENTINEL)
MainPutSentinel ==
    /\ pc[Main] = "main_for"
    /\ idx[Main] < NUM_CONSUMERS
    /\ idx' = [idx EXCEPT ![Main] = idx[Main] + 1]
    /\ item' = [item EXCEPT ![Main] = SENTINEL]
    /\ ncalls' = [ncalls EXCEPT ![Main] = ncalls[Main] + 1]
    /\ ret' = [ret EXCEPT ![Main] = "main_for"]
    /\ pc' = [pc EXCEPT ![Main] = "put_enter"]
    /\ UNCHANGED <<maxsize, arg, budget, queue, lock, not_empty, not_full, source, dest,
                   size, putLog, getLog, mark>>

\* for t in consumers: t.join()
MainJoinConsumers ==
    /\ pc[Main] = "main_for"
    /\ idx[Main] = NUM_CONSUMERS
    /\ \A c \in BurstConsumers : pc[c] = "done"
    /\ pc' = [pc EXCEPT ![Main] = "done"]
    /\ UNCHANGED <<maxsize, arg, budget, queue, lock, not_empty, not_full, ret, item, source,
                   idx, dest, ncalls, size, putLog, getLog, mark>>

MainRun ==
    \/ MainJoinProducers
    \/ MainPutSentinel
    \/ MainJoinConsumers
    \/ Put(Main)

InitBurst ==
    /\ maxsize \in 1..MaxCap
    /\ source = <<>>
    /\ InitQueue(BurstProducers \cup BurstConsumers \cup {Main})

NextBurst ==
    \/ \E p \in BurstProducers : ProducerFn(p)
    \/ \E c \in BurstConsumers : ConsumerFn(c)
    \/ MainRun

SpecBurst == InitBurst /\ [][NextBurst]_vars

\* every started thread is an OS thread of its own and keeps being scheduled
FairBurst ==
    /\ SpecBurst
    /\ \A p \in BurstProducers : WF_vars(ProducerFn(p))
    /\ \A c \in BurstConsumers : WF_vars(ConsumerFn(c))
    /\ WF_vars(MainRun)

----------------------------------------------------------------------------
(* Properties of the session of one Producer and one Consumer *)

IsPrefix(s, t) == Len(s) <= Len(t) /\ SubSeq(t, 1, Len(s)) = s

\* the values the Producer has passed to put so far, in call order
PutArgs == SubSeq(Append(source, SENTINEL), 1, ncalls[TheProducer])

BothDone == pc[TheProducer] = "done" /\ pc[TheConsumer] = "done"

\* C2: with one producer and one consumer, the values get has returned so far
\* are a prefix of the values passed so far to put, in every reachable state.
C2_FifoPrefix == IsPrefix(getLog, PutArgs)

C2_Witness ==
    /\ Len(getLog) >= 2
    /\ getLog[1] # getLog[2]
    /\ Len(queue) >= 2
    /\ queue[1] # queue[2]

\* C3: whenever the Producer and the Consumer have both finished, the
\* destination equals the source (same items, same order, no sentinel) and
\* the buffer is empty.
C3_TransferResult == BothDone => (dest = source /\ Len(queue) = 0)

C3_Witness ==
    /\ BothDone
    /\ maxsize = DemoMaxsize
    /\ dest = [i \in 1..DemoLast |-> i]

\* C4: under fair scheduling the Producer and the Consumer both terminate,
\* for every capacity and source (also when the source is longer than the
\* capacity).
C4_Termination == <>BothDone

C4_Witness ==
    /\ BothDone
    /\ Len(source) > maxsize

InGetWait(t) == pc[t] \in {"get_wait", "get_woken"}
InPutWait(t) == pc[t] \in {"put_wait", "put_woken"}

\* C7: under fair scheduling, a get suspended on the empty queue returns
\* once a put has completed its append, and a put suspended on the full
\* queue returns once a get has completed its removal.
C7_BlockedProgress ==
    /\ (InGetWait(TheConsumer) /\ Len(putLog) > mark[TheConsumer])
            ~> (pc[TheConsumer] = "consumer_if")
    /\ (InPutWait(TheProducer) /\ Len(getLog) > mark[TheProducer])
            ~> (pc[TheProducer] \in {"producer_for", "done"})

C7_Witness ==
    /\ pc[TheProducer] = "put_append"
    /\ mark[TheProducer] >= 0
    /\ pc[TheConsumer] = "consumer_if"
    /\ Len(dest) >= 1

\* C8: the sentinel never appears in the destination; once the Consumer has
\* removed the sentinel it has called get exactly N+1 times for the N payload
\* items before it, the destination holds exactly those N items in order, and
\* it makes no further call; it terminates only on the sentinel.
C8_SentinelTermination ==
    /\ SENTINEL \notin Range(dest)
    /\ SENTINEL \in Range(getLog) =>
          /\ getLog = Append(dest, SENTINEL)
          /\ ncalls[TheConsumer] = Len(dest) + 1
          /\ pc[TheConsumer] \in {"get_notify", "get_exit", "consumer_if", "done"}
    /\ pc[TheConsumer] = "done" => SENTINEL \in Range(getLog)

C8_Witness ==
    /\ pc[TheConsumer] = "done"
    /\ Len(dest) >= 2
    /\ ncalls[TheConsumer] = Len(dest) + 1

----------------------------------------------------------------------------
(* Properties of threads calling put, get and qsize directly *)

\* C1: in every reachable state, for every capacity and any threads calling
\* put and get concurrently, 0 <= len(buffer) <= capacity.
C1_BoundedOccupancy == 0 <= Len(queue) /\ Len(queue) <= maxsize

C1_Witness ==
    /\ maxsize >= 2
    /\ Len(queue) = maxsize
    /\ \E t, u \in Threads :
          /\ pc[t] = "put_wait"
          /\ pc[u] \in {"get_pop", "put_while", "qsize_read"}

PastGetLoop(t) == pc[t] \in {"get_pop", "get_notify", "get_exit"}
PastPutLoop(t) == pc[t] \in {"put_append", "put_notify", "put_exit"}

\* C5: no get ends in a failure; a get is past its wait loop only if an append
\* has completed, and one that found the buffer empty only if an append has
\* completed since; while suspended it only goes on to re-check under the
\* lock and leaves the buffer as it is.
C5_GetBlocksOnEmpty ==
    /\ [](\A t \in Threads :
            /\ pc[t] # "raised"
            /\ PastGetLoop(t) /\ mark[t] >= 0 => Len(putLog) > mark[t]
            /\ PastGetLoop(t) => Len(putLog) > 0
            /\ InGetWait(t) => mark[t] >= 0)
    /\ [][\A t \in Threads :
            InGetWait(t) =>
                /\ pc'[t] \in {"get_wait", "get_woken", "get_while"}
                /\ pc'[t] # pc[t] => queue' = queue]_vars

C5_Witness ==
    \E t, u \in Threads :
        /\ pc[t] = "get_pop"
        /\ mark[t] >= 0
        /\ pc[u] = "get_wait"

InPut(t) ==
    pc[t] \in {"put_enter", "put_while", "put_wait", "put_woken", "put_append",
               "put_notify", "put_exit"}

\* C6: a put that found the buffer full appends only after a removal has
\* completed since, and only into a buffer with room; while suspended it keeps
\* its item, only goes on to re-check under the lock and leaves the buffer as
\* it is; no put fails, and a put returns only from the end of its with
\* block, its item appended at the tail (never dropped).
C6_PutBlocksOnFull ==
    /\ [](\A t \in Threads :
            /\ pc[t] # "raised"
            /\ PastPutLoop(t) /\ mark[t] >= 0 => Len(getLog) > mark[t]
            /\ pc[t] = "put_append" => Len(queue) < maxsize
            /\ InPutWait(t) => mark[t] >= 0
            /\ pc[t] \in {"put_notify", "put_exit"} =>
                  /\ queue # <<>>
                  /\ queue[Len(queue)] = item[t]
                  /\ putLog[Len(putLog)] = item[t])
    /\ [][\A t \in Threads :
            /\ InPutWait(t) =>
                  /\ pc'[t] \in {"put_wait", "put_woken", "put_while"}
                  /\ item'[t] = item[t]
                  /\ pc'[t] # pc[t] => queue' = queue
            /\ InPut(t) /\ ~InPut(t)' => pc[t] = "put_exit"]_vars

C6_Witness ==
    \E t, u \in Threads :
        /\ pc[t] = "put_append"
        /\ mark[t] >= 0
        /\ pc[u] = "put_wait"

\* the positions at which a thread is inside a with block of the queue
Holding(t) ==
    pc[t] \in {"put_while", "put_append", "put_notify", "put_exit",
               "get_while", "get_pop", "get_notify", "get_exit",
               "qsize_read", "qsize_exit"}

\* C10: the threads inside a with block of put, get or qsize (where the
\* buffer is read, appended to and removed from) are exactly the holder of
\* the lock, so at most one; a thread suspended on not_full or not_empty is
\* in that wait set and does not hold the lock.
C10_MutualExclusion ==
    /\ \A t \in Threads : Holding(t) <=> lock = t
    /\ Cardinality({t \in Threads : Holding(t)}) <= 1
    /\ \A t \in Threads :
          /\ pc[t] = "put_wait" <=> t \in Range(not_full)
          /\ pc[t] = "get_wait" <=> t \in Range(not_empty)
          /\ pc[t] \in {"put_wait", "get_wait"} => lock # t

C10_Witness ==
    \E t, u, w \in Threads :
        /\ lock = t
        /\ pc[t] = "put_append"
        /\ pc[u] = "get_wait"
        /\ pc[w] \in {"qsize_enter", "get_enter", "put_enter", "get_woken"}

----------------------------------------------------------------------------
(* Properties of the burst test *)

BurstDone == \A t \in Threads : pc[t] = "done"

Produced == {ItemOf(p, k) : p \in BurstProducers, k \in 1..BURST}

\* C9: under fair scheduling every producer, every consumer and the thread
\* that puts the sentinels terminate, and then the consumed items are exactly
\* the produced items, each once and none of them a sentinel, and the queue
\* is empty.
C9_BurstTransfer ==
    /\ <>BurstDone
    /\ [](BurstDone =>
            /\ Range(dest) = Produced
            /\ Len(dest) = Cardinality(Produced)
            /\ Len(queue) = 0)

C9_Witness ==
    /\ BurstDone
    /\ Len(dest) = NUM_PRODUCERS * BURST
    /\ Len(getLog) = NUM_PRODUCERS * BURST + NUM_CONSUMERS

----------------------------------------------------------------------------
\* the queue object exists: __init__ has assigned its fields
Constructed == maxsize # Unbound

\* C11: constructing a queue with a capacity of zero or less fails with an
\* error (ValueError) and yields no queue object, so that no operation ever
\* runs on it; constructing it with a capacity above zero does not fail and
\* yields a queue of that capacity, which is empty (size 0, nobody waiting,
\* lock free) as long as no operation has been started on it
C11_CapacityValidation ==
    /\ arg <= 0 =>
          /\ ~Constructed
          /\ pc[Constructor] \in {"new", "raised"}
          /\ \A t \in Threads \ {Constructor} : pc[t] = "unstarted"
          /\ budget = MaxCalls
    /\ (arg > 0 /\ pc[Constructor] # "new") =>
          /\ pc[Constructor] # "raised"
          /\ maxsize = arg
          /\ budget = MaxCalls =>
                /\ Len(queue) = 0
                /\ not_empty = <<>> /\ not_full = <<>>
                /\ lock = NoThread

\* the constructor has refused capacity 0
C11_Witness ==
    /\ arg = 0
    /\ pc[Constructor] = "raised"
    /\ ~Constructed

----------------------------------------------------------------------------
InQsize(t) == pc[t] \in {"qsize_enter", "qsize_read", "qsize_exit"}

\* C12: qsize never waits on a condition (from a position of qsize a thread
\* only moves to the next position of qsize or returns), its steps change
\* neither the buffer nor a wait set and wake no thread, the value it
\* returns is len(buffer) while it holds the lock, which is the number of
\* appends minus the number of removals completed by then, and every value
\* qsize has returned lies in [0, capacity], with puts and gets in progress
C12_QsizeQuery ==
    /\ [](\A t \in Threads :
            /\ size[t] # Unbound => (0 <= size[t] /\ size[t] <= maxsize)
            /\ pc[t] = "qsize_exit" =>
                  /\ size[t] = Len(queue)
                  /\ size[t] = Len(putLog) - Len(getLog))
    /\ [][\A t \in Threads :
            (InQsize(t) /\ pc'[t] # pc[t]) =>
                /\ pc'[t] \in {"qsize_read", "qsize_exit", ret[t]}
                /\ queue' = queue
                /\ not_empty' = not_empty
                /\ not_full' = not_full
                /\ \A u \in Threads \ {t} : pc'[u] = pc[u]]_vars

\* qsize is about to return the capacity while a put is suspended on the
\* full queue
C12_Witness ==
    \E t, u \in Threads :
        /\ pc[t] = "qsize_exit"
        /\ size[t] = maxsize
        /\ pc[u] = "put_wait"

----------------------------------------------------------------------------
\* the consumer has not called get: no consumer runs
NoConsumerRuns == ncalls[TheConsumer] = 0 /\ pc[TheConsumer] = "consumer_while"

\* C13: the arguments of the Producer's calls of put are the source items in
\* source order followed by the sentinel, the sentinel being the argument of
\* the last call only (of the only call when the source is empty), and run
\* returns after that call with every one of them appended in that order;
\* when the capacity is at least len(source) + 1 and no consumer runs, the
\* producer never waits, can always take its next step, and at its end the
\* buffer is the source followed by the sentinel
C13_ProducerProtocol ==
    LET all == Append(source, SENTINEL)
        P == TheProducer
    IN  /\ ncalls[P] <= Len(all)
        /\ InPut(P) =>
              /\ item[P] = all[ncalls[P]]
              /\ Len(putLog) = IF pc[P] \in {"put_notify", "put_exit"}
                               THEN ncalls[P] ELSE ncalls[P] - 1
        /\ IsPrefix(putLog, all)
        /\ pc[P] = "producer_for" => (ncalls[P] = idx[P] /\ Len(putLog) = idx[P])
        /\ pc[P] = "done" => (putLog = all /\ ncalls[P] = Len(all))
        /\ (NoConsumerRuns /\ maxsize >= Len(source) + 1) =>
              /\ ~InPutWait(P)
              /\ mark[P] = -1
              /\ pc[P] # "done" => ENABLED ProducerRun(P)
              /\ pc[P] = "done" => queue = all

\* the producer has ended on a queue with room for two items and the
\* sentinel, no consumer running
C13_Witness ==
    /\ NoConsumerRuns
    /\ pc[TheProducer] = "done"
    /\ Len(source) >= 2
    /\ source[1] # source[2]
    /\ maxsize >= Len(source) + 1
    /\ queue = Append(source, SENTINEL)

----------------------------------------------------------------------------
\* a consumer that has been notified (get_woken) or is in the middle of a
\* get without being in the wait set
GetActive(t) ==
    pc[t] \in {"get_enter", "get_while", "get_woken", "get_pop", "get_notify",
               "get_exit"}

\* a producer that has been notified (put_woken) or is in the middle of a
\* put without being in the wait set
PutActive(t) ==
    pc[t] \in {"put_enter", "put_while", "put_woken", "put_append",
               "put_notify", "put_exit"}

\* some consumer is un-notified in the wait set of not_empty, the buffer is
\* not empty and no consumer is notified or in the middle of a get
ConsumerLeftWaiting ==
    /\ queue # <<>>
    /\ not_empty # <<>>
    /\ \A t \in Threads : ~GetActive(t)

\* some producer is un-notified in the wait set of not_full, the buffer has
\* room and no producer is notified or in the middle of a put
ProducerLeftWaiting ==
    /\ Len(queue) < maxsize
    /\ not_full # <<>>
    /\ \A t \in Threads : ~PutActive(t)

\* C14, as stated: in no reachable state is a consumer left waiting on a
\* non-empty buffer or a producer left waiting on a buffer with room
C14_NoLostWakeupInAnyState == ~ConsumerLeftWaiting /\ ~ProducerLeftWaiting

\* C14, amended: the append of a put is followed by its notify on not_empty,
\* and the removal of a get by its notify on not_full, the lock being held
\* from the one to the other and released only after; a consumer is left
\* waiting on a non-empty buffer only while a put stands between its append
\* and its notify, and a producer is left waiting on a buffer with room only
\* while a get stands between its removal and its notify
C14_NoLostWakeup ==
    /\ [](ConsumerLeftWaiting => \E t \in Threads : pc[t] = "put_notify")
    /\ [](ProducerLeftWaiting => \E t \in Threads : pc[t] = "get_notify")
    /\ [](\A t \in Threads :
             pc[t] \in {"put_notify", "get_notify"} => lock = t)
    /\ [][\A t \in Threads :
            /\ (pc[t] = "put_append" /\ pc'[t] # pc[t]) =>
                  (pc'[t] = "put_notify" /\ Len(queue') = Len(queue) + 1)
            /\ (pc[t] = "put_notify" /\ pc'[t] # pc[t]) =>
                  /\ pc'[t] = "put_exit" /\ lock' = t
                  /\ not_empty # <<>> =>
                        /\ pc'[Head(not_empty)] = "get_woken"
                        /\ not_empty' = Tail(not_empty)
            /\ (pc[t] = "get_pop" /\ pc'[t] # pc[t]) =>
                  (pc'[t] = "get_notify" /\ Len(queue') = Len(queue) - 1)
            /\ (pc[t] = "get_notify" /\ pc'[t] # pc[t]) =>
                  /\ pc'[t] = "get_exit" /\ lock' = t
                  /\ not_full # <<>> =>
                        /\ pc'[Head(not_full)] = "put_woken"
                        /\ not_full' = Tail(not_full)]_vars

\* a put has notified one of two waiting consumers and released the lock:
\* the buffer is not empty, the other consumer is still in the wait set
C14_Witness ==
    /\ queue # <<>>
    /\ not_empty # <<>>
    /\ lock = NoThread
    /\ \E t \in Threads : pc[t] = "get_woken"
    /\ \A t \in Threads : ~InPut(t)

----------------------------------------------------------------------------
\* C15: with wakes that may be spurious and with other threads taking the
\* slot or the item before the woken thread has the lock again, a thread
\* that leaves wait() goes back to its loop condition under the lock and
\* waits again when the condition still holds; a put stands at its append,
\* and the buffer grows, only when len(buffer) < capacity, a get stands at
\* its removal only when the buffer is not empty, and no get fails on an
\* empty buffer
C15_RecheckAfterWake ==
    /\ [](\A t \in Threads :
            /\ pc[t] = "put_append" => (Len(queue) < maxsize /\ lock = t)
            /\ pc[t] = "get_pop" => (Len(queue) > 0 /\ lock = t)
            /\ pc[t] # "raised")
    /\ [][/\ Len(queue') > Len(queue) => Len(queue) < maxsize
          /\ \A t \in Threads :
               /\ (pc[t] = "put_woken" /\ pc'[t] # pc[t]) =>
                     (pc'[t] = "put_while" /\ lock' = t)
               /\ (pc[t] = "get_woken" /\ pc'[t] # pc[t]) =>
                     (pc'[t] = "get_while" /\ lock' = t)
               /\ (pc[t] = "put_while" /\ pc'[t] # pc[t]) =>
                     pc'[t] = IF Len(queue) = maxsize THEN "put_wait"
                                                       ELSE "put_append"
               /\ (pc[t] = "get_while" /\ pc'[t] # pc[t]) =>
                     pc'[t] = IF Len(queue) = 0 THEN "get_wait"
                                                 ELSE "get_pop"]_vars

\* a put that has left wait() with no removal completed since it began to
\* wait holds the lock again and finds the buffer still full
C15_Witness ==
    \E t \in Threads :
        /\ pc[t] = "put_while"
        /\ lock = t
        /\ mark[t] = Len(getLog)
        /\ Len(queue) = maxsize

----------------------------------------------------------------------------
InGet(t) ==
    pc[t] \in {"get_enter", "get_while", "get_wait", "get_woken", "get_pop",
               "get_notify", "get_exit"}

\* the threads other than t that a step moves
MovedBy(t) == {u \in Threads \ {t} : pc'[u] # pc[u]}

\* a notify on `waiters` by t takes exactly one thread out of that wait set,
\* to the position `woken`, when the set is not empty, and none otherwise
WakesOne(t, waiters, woken) ==
    IF waiters = <<>>
    THEN MovedBy(t) = {} /\ waiters' = <<>>
    ELSE /\ Cardinality(MovedBy(t)) = 1
         /\ MovedBy(t) \subseteq Range(waiters)
         /\ Range(waiters') = Range(waiters) \ MovedBy(t)
         /\ Len(waiters') = Len(waiters) - 1
         /\ \A u \in MovedBy(t) : pc'[u] = woken

\* C16: a put reaches its end only through its append and its notify, in
\* that order; the append adds exactly one item and no other step of the put
\* changes the size, so a completed put has increased the size by exactly
\* 1; its notify takes exactly one thread out of the wait set of not_empty
\* when that set is not empty and none otherwise, and neither it nor any
\* other step of the put takes a thread out of the wait set of not_full.
\* Likewise for get, with a decrease by exactly 1 and the wait sets
\* exchanged
C16_OneWakePerOperation ==
    [][\A t \in Threads :
        pc'[t] # pc[t] =>
          /\ InPut(t) =>
                Len(queue') = Len(queue) + IF pc[t] = "put_append" THEN 1 ELSE 0
          /\ InGet(t) =>
                Len(queue') = Len(queue) - IF pc[t] = "get_pop" THEN 1 ELSE 0
          /\ pc'[t] = "put_exit" => pc[t] = "put_notify"
          /\ pc'[t] = "put_notify" => pc[t] = "put_append"
          /\ pc'[t] = "get_exit" => pc[t] = "get_notify"
          /\ pc'[t] = "get_notify" => pc[t] = "get_pop"
          /\ pc[t] = "put_notify" =>
                /\ WakesOne(t, not_empty, "get_woken")
                /\ not_full' = not_full
          /\ pc[t] = "get_notify" =>
                /\ WakesOne(t, not_full, "put_woken")
                /\ not_empty' = not_empty
          /\ (InPut(t) /\ lock = t /\ pc[t] # "put_notify") =>
                /\ MovedBy(t) = {}
                /\ not_empty' = not_empty
                /\ \A u \in Range(not_full) : u \in Range(not_full')
          /\ (InGet(t) /\ lock = t /\ pc[t] # "get_notify") =>
                /\ MovedBy(t) = {}
                /\ not_full' = not_full
                /\ \A u \in Range(not_empty) : u \in Range(not_empty')]_vars

\* a get is at its notify with two puts in the wait set of not_full
C16_Witness ==
    \E t \in Threads :
        /\ pc[t] = "get_notify"
        /\ Len(not_full) >= 2

----------------------------------------------------------------------------
\* C17: with one Producer and one Consumer, the producer is never in the
\* wait set of not_full (suspended, not notified) while the consumer is in
\* the wait set of not_empty, and in every reachable state some thread can
\* take a step unless both run methods have returned
C17_NoMutualWait ==
    /\ ~(pc[TheProducer] = "put_wait" /\ pc[TheConsumer] = "get_wait")
    /\ BothDone \/ ENABLED Next

\* the producer is suspended on the full queue, not notified, while the
\* consumer is in the middle of the get that will notify it
C17_Witness ==
    /\ pc[TheProducer] = "put_wait"
    /\ Len(queue) = maxsize
    /\ pc[TheConsumer] = "get_pop"

----------------------------------------------------------------------------
\* the items of log that thread t has put, in the order of log
ItemsOf(log, t) == SelectSeq(log, LAMBDA x : PutterOf(x) = t)

\* C18: with any threads putting and getting, the items removed, in the
\* order of the removals (made one at a time, under the lock), are a prefix
\* of the items appended, in the order of the appends, what follows that
\* prefix being the buffer, head first; and the items of one thread that
\* have been removed are its first, second, ... item in the order of its
\* puts
C18_GlobalFifo ==
    /\ IsPrefix(getLog, putLog)
    /\ queue = SubSeq(putLog, Len(getLog) + 1, Len(putLog))
    /\ \A t \in Threads :
          ItemsOf(getLog, t) =
              [k \in 1..Len(ItemsOf(getLog, t)) |-> CallerItem(t, k)]

\* two items of one thread have been removed, by two other threads
C18_Witness ==
    \E t, u, v \in Threads :
        /\ Cardinality({t, u, v}) = 3
        /\ ItemsOf(getLog, t) = <<CallerItem(t, 1), CallerItem(t, 2)>>
        /\ pc[u] = "idle" /\ item[u] = CallerItem(t, 1)
        /\ pc[v] = "idle" /\ item[v] = CallerItem(t, 2)

----------------------------------------------------------------------------
\* how many times x occurs in s
Count(s, x) == Cardinality({i \in 1..Len(s) : s[i] = x})

\* the value the last get of t returned, t being back from it
Returned(t) == pc[t] = "idle" /\ item[t] # Unbound

\* C19: in every reachable state, with any threads putting and getting,
\* every item occurs among the items appended as many times as among the
\* items removed and the items in the buffer together; every item a get
\* has returned is one of the items removed, no item is removed twice and
\* no two gets have returned the same item
C19_Conservation ==
    /\ \A x \in Range(putLog) \cup Range(getLog) \cup Range(queue) :
          /\ Count(putLog, x) = Count(getLog, x) + Count(queue, x)
          /\ Count(getLog, x) <= 1
    /\ \A t \in Threads :
          Returned(t) =>
             /\ item[t] \in Range(getLog)
             /\ \A u \in Threads \ {t} : Returned(u) => item[u] # item[t]

\* two items appended: one returned by a get, the other in the buffer and
\* about to be removed by another get
C19_Witness ==
    /\ Len(putLog) = 2
    /\ Len(getLog) = 1
    /\ Len(queue) = 1
    /\ \E t, u \in Threads :
          /\ Returned(t) /\ item[t] = getLog[1]
          /\ pc[u] = "get_pop"

----------------------------------------------------------------------------
\* the Consumer threads whose run has returned
Terminated == {c \in SharedConsumers : pc[c] = "done"}

\* one Consumer has terminated, every other one is suspended in get on the
\* empty buffer, and the Producer has returned: nothing can wake them
OneStoppedOthersBlocked ==
    /\ pc[TheProducer] = "done"
    /\ queue = <<>>
    /\ Cardinality(Terminated) = 1
    /\ \A c \in SharedConsumers \ Terminated :
          pc[c] = "get_wait" /\ c \in Range(not_empty)

\* C20: a sentinel removed by a Consumer is not put back (the removed
\* sentinels are never more than those appended, a removed sentinel is in
\* no buffer), and at most as many Consumers terminate as sentinels have
\* been enqueued; with two or more Consumers on the queue of one Producer,
\* which enqueues one sentinel, under fair scheduling exactly one Consumer
\* ends up terminated and every other one suspended in get on the empty
\* buffer, for ever
C20_OneSentinelOneConsumer ==
    /\ [](/\ Cardinality(Terminated) <= Count(getLog, SENTINEL)
          /\ Count(getLog, SENTINEL) + Count(queue, SENTINEL)
                = Count(putLog, SENTINEL)
          /\ Count(putLog, SENTINEL) <= 1
          /\ Cardinality(Terminated) < Cardinality(SharedConsumers))
    /\ <>[]OneStoppedOthersBlocked

\* one Consumer has terminated on the sentinel after the payload went to
\* dest, and the others are blocked
C20_Witness ==
    /\ OneStoppedOthersBlocked
    /\ Len(source) >= 2
    /\ dest = source
    /\ Cardinality(SharedConsumers) >= 2

====
